---- MODULE Spec2Model ----
(***************************************************************************)
(* Model of ChannelScanner (src/src/channel_scanner.py): the bounded-      *)
(* concurrency scans scan_all_channels and scan_private_chats, their       *)
(* per-target tasks process_channel and process_private_chat, the          *)
(* rate-limit handling of get_channel_info and _collect_private_chat_info, *)
(* and the timeout selection of process_private_chat.                      *)
(*                                                                         *)
(* Time is discrete: one Tick is one unit of monotonic() time.  A task's   *)
(* elapsed[i] is monotonic() - start_time of that task.                    *)
(***************************************************************************)
EXTENDS Integers, Sequences, FiniteSets, TLC

----------------------------------------------------------------------------
(* Bounds of the model *)

\* largest number of targets a dialog listing yields
MaxTargets == 2
\* largest configured concurrency
MaxConcurrency == 2
\* largest configured timeout, in ticks
MaxTimeout == 2
\* largest wait a FloodWaitError carries, in ticks
MaxWait == 2
\* ticks a placeholder lookup is followed after the timer fired
MaxLatency == 1
\* largest configured duration of the timeout policy, in ticks
MaxDuration == 3
\* number of scans one scanner object runs
MaxRuns == 2
\* number of those scans whose get_dialogs call succeeds
MaxListings == 1

\* largest entity id of a dialog
MaxId == 3
\* get_channel_info calls followed in detail (the first and its retries)
MaxAttempts == 2
\* latest date a dialog or a message carries
MaxDate == 2
\* participants_count an entity or a full_chat carries
FullChatCount == 5
\* linked_chat_id a full_chat carries
LinkedId == MaxId + 1

\* largest number of dialogs get_dialogs returns when the loop over them is
\* followed entry by entry
MaxDialogs == 2

\* the limit _fetch_forum_topics is called with (100 in the source), when the
\* call is followed pass by pass
TopicsLimit == 2
\* largest topic id and top_message a listed topic carries
MaxTopicId == 1

\* largest number of messages iter_messages yields when the loop over them
\* is followed message by message
MaxMessages == 2

\* entity ids the listing draws from
Ids == 1..MaxId

VARIABLES
    concurrency,              \* self.concurrency
    request_timeout,          \* self.request_timeout
    channel_timeout,          \* self.channel_timeout
    private_timeout,          \* self.private_timeout
    private_timeout_ids,      \* self.private_timeout_ids
    private_text_timeout,     \* self.private_text_timeout
    private_text_timeout_ids, \* self.private_text_timeout_ids
    unsubscribe_ids,          \* self.unsubscribe_ids
    channels_data,            \* self.channels_data
    private_chats_data,       \* self.private_chats_data
    xlsx_rows,                \* rows built last from the stored list of a scan
    phase,                    \* position of the scan coroutine
    raised_by,                \* where the exception the scan raised came from
    filled,                   \* scans that returned a non-empty stored list so far
    scan,                     \* which scan runs: "channels" or "private"
    runs,                     \* scans started so far
    listed,                   \* scans whose get_dialogs call succeeded so far
    targets,                  \* channels_and_groups / private_dialogs (entity ids)
    semaphore,                \* value of the asyncio.Semaphore
    pc,                       \* position of each per-target task
    elapsed,                  \* monotonic() - start_time of each task
    wake,                     \* elapsed value at which asyncio.sleep(e.seconds) ends
    timeout_value,            \* timeout given to asyncio.wait_for by each task
    info,                     \* channel_info / chat_info of each task
    results,                  \* what asyncio.gather holds for each task
    finished,                 \* task indexes in the order the tasks completed
    outcome,                  \* how the wait_for of each task ended
    floods,                   \* FloodWaitErrors signalled to each task
    waited,                   \* seconds of the first FloodWaitError of each task
    is_unsubscribed,          \* what _leave_channel_or_chat returned to each task
    full_user_info_task,      \* state of the task created at line 1223, per target
    step,                     \* position of get_channel_info (one fetch followed in detail)
    call,                     \* arguments of the running get_channel_info call
    locals,                   \* local variables of the running get_channel_info call
    issued,                   \* requests the running call sent, with their answers
    attempt,                  \* number of get_channel_info calls entered so far
    returned,                 \* what the outermost get_channel_info call returned
    dialogs,                  \* what get_dialogs returned (the loop over it followed entry by entry)
    dialog_index,             \* entries of dialogs the loop has been through
    counting,                 \* position of the loop over iter_participants (line 393)
    group_size,               \* participants the group has on the server
    consumed,                 \* participants the loop has taken from the iterator
    count,                    \* the local variable count
    participants_count,       \* the local variable participants_count after the loop
    topics_pc,                \* position of _fetch_forum_topics (the call followed pass by pass)
    forum_topics,             \* the local list topics
    seen_titles,              \* the local set seen_titles
    offset_id,                \* the local variable offset_id
    offset_topic,             \* the local variable offset_topic
    remaining,                \* the local variable remaining
    iteration,                \* the local variable iteration
    topics_requests,          \* GetForumTopicsRequest requests the call has sent
    messages_pc,              \* position of _collect_private_chat_info (the loop followed)
    use_text_stats,           \* the argument use_text_stats
    yielded,                  \* the messages iter_messages has yielded so far
    counters,                 \* the eleven local counters of lines 1210-1220
    collected                 \* what _collect_private_chat_info returned

config == <<concurrency, request_timeout, channel_timeout, private_timeout,
            private_timeout_ids, private_text_timeout, private_text_timeout_ids,
            unsubscribe_ids>>
data == <<channels_data, private_chats_data, xlsx_rows>>
tasks == <<pc, elapsed, wake, timeout_value, info, results, finished, outcome,
           floods, waited>>
side == <<is_unsubscribed, full_user_info_task>>
scanning == <<phase, raised_by, filled, scan, runs, listed, targets, semaphore, tasks, side>>
detail == <<step, call, locals, issued, attempt, returned>>
enumeration == <<dialogs, dialog_index>>
count_loop == <<counting, group_size, consumed, count, participants_count>>
topics_loop == <<topics_pc, forum_topics, seen_titles, offset_id, offset_topic, remaining,
                 iteration, topics_requests>>
message_loop == <<messages_pc, use_text_stats, yielded, counters, collected>>
aside == <<enumeration, count_loop, topics_loop, message_loop>>
vars == <<config, data, phase, raised_by, filled, scan, runs, listed, targets, semaphore, tasks,
          side, detail, aside>>

----------------------------------------------------------------------------
(* Values *)

\* processing_status values: "Ок", "Таймаут", "Ошибка" in the source
StatusOk == "Ok"
StatusTimeout == "Timeout"
StatusError == "Error"

\* unsubscribed_status values: "Да", "Нет", "Ошибка отписки" in the source
UnsubYes == "Yes"
UnsubNo == "No"
UnsubFailed == "LeaveError"

\* Python's None, an exception instance held by gather, a task still running
None == [type |-> "None"]
ExceptionResult == [type |-> "Exception"]
NotDone == [type |-> "NotDone"]

IsDict(r) == r.type = "dict"
IsException(r) == r.type = "Exception"

Indexes == 1..Len(targets)

Max(a, b) == IF a >= b THEN a ELSE b

\* sequences without repetition over S of length at most n
InjectiveSeqs(S, n) ==
    UNION {{s \in [1..k -> S] : \A a, b \in 1..k : a # b => s[a] # s[b]} : k \in 0..n}

----------------------------------------------------------------------------
(* The entities and dialogs of the account *)

\* a value that is not None
Some(v) == [type |-> "value", v |-> v]

\* the Channel entities of the account: 1 is a broadcast channel, 2 and 3 are
\* supergroups, 3 carries participants_count itself
Channel(id) ==
    [id |-> id, broadcast |-> (id = 1), megagroup |-> (id # 1),
     participants_count |-> IF id = MaxId THEN Some(FullChatCount) ELSE None]

\* the User entities of the account: 1 is verified, 2 and 3 are not
User(id) == [id |-> id, verified |-> (id = 1)]

\* dialog.message.date of the dialog with the entity id: the dialog of 2 has
\* no message, the dialogs of 1 and 3 have messages of different dates
message_date(id) == IF id = 2 THEN None ELSE Some((id + 1) \div 2)

\* number of dated messages iter_messages yields for the chat with user id
messages_in(id) == id - 1

\* the entity object of a target of the running scan
entity_of(id) == IF scan = "channels" THEN Channel(id) ELSE User(id)

\* the map is built without the dates of the dialogs
last_message_map_without_dates == [id \in {targets[k] : k \in DOMAIN targets} |-> None]

\* last_message_map as the loop over the dialogs fills it (lines 575-584,
\* 1079-1089)
last_message_map == [id \in {targets[k] : k \in DOMAIN targets} |-> message_date(id)]

----------------------------------------------------------------------------
(* Rows *)

\* the count get_channel_info worked out is stored in the dict
channel_data_with_count(id) ==
    [type |-> "dict", id |-> id, processing_status |-> StatusOk,
     unsubscribed_status |-> "unset", participants_count |-> Channel(id).participants_count]

\* the dict get_channel_info returns on success; it sets no unsubscribed_status
\* and no participants_count (the count of lines 383-397 stays a local)
channel_data(id) ==
    [type |-> "dict", id |-> id, processing_status |-> StatusOk,
     unsubscribed_status |-> "unset"]

\* the placeholder is built with the status of a fetched row
_build_basic_channel_info_as_ok(entity, last_message_date, status) ==
    [type |-> "dict", id |-> entity.id,
     is_broadcast |-> entity.broadcast, is_megagroup |-> entity.megagroup,
     participants_count |-> None,
     last_message_date |-> last_message_date,
     processing_status |-> StatusOk, unsubscribed_status |-> UnsubNo]

_build_basic_channel_info(entity, last_message_date, status) ==
    [type |-> "dict", id |-> entity.id,
     is_broadcast |-> entity.broadcast, is_megagroup |-> entity.megagroup,
     participants_count |-> None,
     last_message_date |-> last_message_date,
     processing_status |-> status, unsubscribed_status |-> UnsubNo]

\* the dict _collect_private_chat_info returns on success
private_chat_info(id) ==
    [type |-> "dict", id |-> id, messages_total |-> messages_in(id),
     processing_status |-> StatusOk, processing_time |-> 0]

_build_basic_private_chat_info(entity, last_message_date, status) ==
    [type |-> "dict", id |-> entity.id,
     is_verified |-> IF entity.verified THEN "Yes" ELSE "No",
     last_message_date |-> last_message_date, messages_total |-> 0,
     processing_status |-> status, processing_time |-> 0]

----------------------------------------------------------------------------
(* TimeoutPolicy of process_private_chat *)

timeout_for(id) ==
    IF id \in private_text_timeout_ids THEN private_text_timeout
    ELSE IF id \in private_timeout_ids THEN private_timeout
    ELSE request_timeout

----------------------------------------------------------------------------
(* Construction: ChannelScanner.__init__ *)

\* no get_channel_info call is followed in detail
InitDetail ==
    /\ step = "idle"
    /\ call = None
    /\ locals = None
    /\ issued = <<>>
    /\ attempt = 0
    /\ returned = NotDone

\* no loop over dialogs is followed entry by entry
InitEnumeration ==
    /\ dialogs = <<>>
    /\ dialog_index = 0

\* no loop over iter_participants is followed
InitIteration ==
    /\ counting = "idle"
    /\ group_size = 0
    /\ consumed = 0
    /\ count = 0
    /\ participants_count = NotDone

\* no _fetch_forum_topics call is followed pass by pass
InitTopics ==
    /\ topics_pc = "idle"
    /\ forum_topics = <<>>
    /\ seen_titles = {}
    /\ offset_id = 0
    /\ offset_topic = 0
    /\ remaining = 0
    /\ iteration = 0
    /\ topics_requests = 0

\* lines 1210-1220: every counter starts at 0
zero_counters ==
    [messages_90 |-> 0, messages_year |-> 0, messages_total |-> 0,
     messages_from_me |-> 0, messages_from_other |-> 0,
     words_total |-> 0, words_from_me |-> 0, words_from_other |-> 0,
     chars_total |-> 0, chars_from_me |-> 0, chars_from_other |-> 0]

\* no _collect_private_chat_info call is followed message by message
InitMessages ==
    /\ messages_pc = "idle"
    /\ use_text_stats = FALSE
    /\ yielded = <<>>
    /\ counters = zero_counters
    /\ collected = NotDone

InitAside == InitEnumeration /\ InitIteration /\ InitTopics /\ InitMessages

Init ==
    /\ InitDetail
    /\ InitAside
    /\ concurrency \in {Max(1, c) : c \in 0..MaxConcurrency}
    /\ request_timeout = 1
    /\ channel_timeout = MaxTimeout
    /\ private_timeout = MaxTimeout
    /\ private_timeout_ids = {1}
    /\ private_text_timeout = MaxTimeout
    /\ private_text_timeout_ids = {2}
    /\ unsubscribe_ids = {1}
    /\ channels_data = <<>>
    /\ private_chats_data = <<>>
    /\ xlsx_rows = NotDone
    /\ phase = "idle"
    /\ raised_by = "none"
    /\ filled = {}
    /\ scan = "none"
    /\ runs = 0
    /\ listed = 0
    /\ targets = <<>>
    /\ semaphore = 0
    /\ pc = <<>>
    /\ elapsed = <<>>
    /\ wake = <<>>
    /\ timeout_value = <<>>
    /\ info = <<>>
    /\ results = <<>>
    /\ finished = <<>>
    /\ outcome = <<>>
    /\ floods = <<>>
    /\ waited = <<>>
    /\ is_unsubscribed = <<>>
    /\ full_user_info_task = <<>>

----------------------------------------------------------------------------
(* The scan coroutine up to the creation of the tasks *)

\* the stored list is not reset: rows of the previous scan stay in it
initial_data_kept(old) == old

\* value given to the stored list when a scan starts
initial_data(old) == <<>>

\* scan_all_channels / scan_private_chats are called: the stored list of that
\* scan is reset and get_dialogs is awaited
scan_start(k) ==
    /\ phase \in {"idle", "returned", "raised"}
    /\ runs < MaxRuns
    /\ runs' = runs + 1
    /\ scan' = k
    /\ phase' = "listing"
    /\ raised_by' = "none"
    /\ channels_data' = IF k = "channels" THEN initial_data(channels_data)
                        ELSE channels_data
    /\ private_chats_data' = IF k = "private" THEN initial_data(private_chats_data)
                             ELSE private_chats_data
    /\ xlsx_rows' = NotDone
    /\ targets' = <<>>
    /\ semaphore' = 0
    /\ pc' = <<>>
    /\ elapsed' = <<>>
    /\ wake' = <<>>
    /\ timeout_value' = <<>>
    /\ info' = <<>>
    /\ results' = <<>>
    /\ finished' = <<>>
    /\ outcome' = <<>>
    /\ floods' = <<>>
    /\ waited' = <<>>
    /\ is_unsubscribed' = <<>>
    /\ full_user_info_task' = <<>>
    /\ UNCHANGED <<detail, aside>>
    /\ UNCHANGED <<config, filled, listed>>

\* get_dialogs raises: the except clause of the scan logs and re-raises
get_dialogs_fail ==
    /\ phase = "listing"
    /\ phase' = "raised"
    /\ raised_by' = "get_dialogs"
    /\ UNCHANGED side
    /\ UNCHANGED <<detail, aside>>
    /\ UNCHANGED <<config, data, filled, scan, runs, listed, targets, semaphore, tasks>>

\* lines 590-664, 1093-1166: the entities of the scanned kind are the targets,
\* the semaphore is created and one task per target is handed to gather
create_tasks(listing) ==
    /\ phase' = "running"
    /\ targets' = listing
    /\ semaphore' = concurrency
    /\ pc' = [i \in 1..Len(listing) |-> "pending"]
    /\ elapsed' = [i \in 1..Len(listing) |-> 0]
    /\ wake' = [i \in 1..Len(listing) |-> 0]
    /\ timeout_value' = [i \in 1..Len(listing) |-> 0]
    /\ info' = [i \in 1..Len(listing) |-> None]
    /\ results' = [i \in 1..Len(listing) |-> NotDone]
    /\ finished' = <<>>
    /\ outcome' = [i \in 1..Len(listing) |-> "none"]
    /\ floods' = [i \in 1..Len(listing) |-> 0]
    /\ waited' = [i \in 1..Len(listing) |-> 0]
    /\ is_unsubscribed' = [i \in 1..Len(listing) |-> "not_called"]
    /\ full_user_info_task' = [i \in 1..Len(listing) |-> "none"]

\* get_dialogs returns and the loop over the dialogs ends without an
\* exception: listing is channels_and_groups / private_dialogs
get_dialogs_ok(listing) ==
    /\ phase = "listing"
    /\ listed < MaxListings
    /\ listed' = listed + 1
    /\ create_tasks(listing)
    /\ UNCHANGED <<detail, aside>>
    /\ UNCHANGED <<config, data, raised_by, filled, scan, runs>>

----------------------------------------------------------------------------
(* The per-target task: process_channel / process_private_chat *)

\* tasks that hold a slot of the semaphore
Running == {i \in Indexes : pc[i] \in {"fetching", "sleeping", "placeholder"}}

\* the semaphore admits one task more than its value
can_acquire_one_more == semaphore >= 0

\* Semaphore.acquire does not block
can_acquire == semaphore > 0

\* "async with semaphore": waiters are served in the order the tasks were
\* created; start_time is taken and the timeout of the target is chosen
acquire(i) ==
    /\ phase = "running"
    /\ pc[i] = "pending"
    /\ \A j \in 1..(i - 1) : pc[j] # "pending"
    /\ can_acquire
    /\ semaphore' = semaphore - 1
    /\ pc' = [pc EXCEPT ![i] = "fetching"]
    /\ timeout_value' = [timeout_value EXCEPT ![i] =
            IF scan = "channels" THEN channel_timeout ELSE timeout_for(targets[i])]
    /\ full_user_info_task' = [full_user_info_task EXCEPT ![i] =
            IF scan = "private" THEN "pending" ELSE @]
    /\ UNCHANGED is_unsubscribed
    /\ UNCHANGED <<detail, aside>>
    /\ UNCHANGED <<config, data, phase, raised_by, filled, scan, runs, listed, targets, elapsed, wake, info,
                   results, finished, outcome, floods, waited>>

\* the task returns r: gather records it
task_returns(i, r) ==
    /\ results' = [results EXCEPT ![i] = r]
    /\ finished' = Append(finished, i)

\* the leave request is sent inside "async with semaphore"
semaphore_after_block_held(sem, leaves) == IF leaves THEN sem ELSE sem + 1

\* the semaphore when process_channel has left the "async with semaphore"
\* block (lines 603-630), which ends before "if channel_info:" (line 631)
\* and so before the leave request of line 644
semaphore_after_block(sem, leaves) == sem + 1

\* process_channel after wait_for gave v (lines 626-659): the slot is released,
\* then a truthy channel_info is checked against unsubscribe_ids and a falsy
\* one is replaced by the "error" placeholder
channel_after_wait(i, v, how) ==
    /\ semaphore' = semaphore_after_block(semaphore, IsDict(v) /\ v.id \in unsubscribe_ids)
    /\ outcome' = [outcome EXCEPT ![i] = how]
    /\ IF IsDict(v)
       THEN IF v.id \in unsubscribe_ids
            THEN /\ pc' = [pc EXCEPT ![i] = "leaving"]
                 /\ info' = [info EXCEPT ![i] = v]
                 /\ UNCHANGED <<results, finished>>
            ELSE /\ pc' = [pc EXCEPT ![i] = "done"]
                 /\ info' = [info EXCEPT ![i] = [v EXCEPT !.unsubscribed_status = UnsubNo]]
                 /\ task_returns(i, info'[i])
       ELSE /\ pc' = [pc EXCEPT ![i] = "done"]
            /\ info' = [info EXCEPT ![i] =
                            _build_basic_channel_info(entity_of(targets[i]),
                                                      last_message_map[targets[i]],
                                                      StatusError)]
            /\ task_returns(i, info'[i])

\* process_private_chat after chat_info was set to v (lines 1153-1161):
\* processing_time is written into a truthy chat_info, chat_info is returned
\* and the slot is released
private_after_wait(i, v, how) ==
    /\ semaphore' = semaphore + 1
    /\ outcome' = [outcome EXCEPT ![i] = how]
    /\ pc' = [pc EXCEPT ![i] = "done"]
    /\ info' = [info EXCEPT ![i] =
                    IF IsDict(v) THEN [v EXCEPT !.processing_time = elapsed[i]] ELSE v]
    /\ task_returns(i, info'[i])

after_wait(i, v, how) ==
    IF scan = "channels" THEN channel_after_wait(i, v, how)
    ELSE private_after_wait(i, v, how)

\* the sleep blocks the event loop (time.sleep): every task is suspended
sleep_suspends_loop(k, i) == TRUE

\* "await asyncio.sleep(e.seconds)" in the task k (line 550) suspends the task
\* i: the coroutine that awaits it and no other
sleep_suspends(k, i) == k = i

\* no sleep of a rate-limited task keeps the task i from running
not_suspended(i) == \A k \in Indexes : pc[k] = "sleeping" => ~sleep_suspends(k, i)

\* the fetch answers with a payload before the timer
fetch_ok(i) ==
    /\ phase = "running"
    /\ pc[i] = "fetching"
    /\ not_suspended(i)
    /\ after_wait(i, IF scan = "channels" THEN channel_data(targets[i])
                     ELSE private_chat_info(targets[i]), "payload")
    /\ full_user_info_task' = [full_user_info_task EXCEPT ![i] =
            IF scan = "private" THEN "done" ELSE @]
    /\ UNCHANGED is_unsubscribed
    /\ UNCHANGED <<detail, aside>>
    /\ UNCHANGED <<config, data, phase, raised_by, filled, scan, runs, listed, targets, elapsed, wake,
                   timeout_value, floods, waited>>

\* a remote call of the fetch raises an error that is no FloodWaitError:
\* "except Exception" of the fetch logs it and returns None
fetch_error(i) ==
    /\ phase = "running"
    /\ pc[i] = "fetching"
    /\ not_suspended(i)
    /\ after_wait(i, None, "error")
    /\ UNCHANGED side
    /\ UNCHANGED <<detail, aside>>
    /\ UNCHANGED <<config, data, phase, raised_by, filled, scan, runs, listed, targets, elapsed, wake,
                   timeout_value, floods, waited>>

\* the rate-limited task gives its slot up and queues for a slot again
pc_in_backoff_requeued == "pending"

\* where the task is while asyncio.sleep(e.seconds) runs: inside wait_for,
\* inside "async with semaphore"
pc_in_backoff == "sleeping"

\* a remote call of the fetch raises FloodWaitError(seconds = w).
\* get_channel_info sleeps w seconds inside wait_for and then calls itself;
\* _collect_private_chat_info has only "except Exception" and returns None
fetch_flood(i, w) ==
    /\ phase = "running"
    /\ pc[i] = "fetching"
    /\ not_suspended(i)
    /\ floods' = [floods EXCEPT ![i] = @ + 1]
    /\ waited' = [waited EXCEPT ![i] = IF floods[i] = 0 THEN w ELSE @]
    /\ IF scan = "channels"
       THEN /\ pc' = [pc EXCEPT ![i] = pc_in_backoff]
            /\ wake' = [wake EXCEPT ![i] = elapsed[i] + w]
            /\ UNCHANGED <<semaphore, info, results, finished, outcome>>
       ELSE /\ private_after_wait(i, None, "flood")
            /\ UNCHANGED wake
    /\ UNCHANGED side
    /\ UNCHANGED <<detail, aside>>
    /\ UNCHANGED <<config, data, phase, raised_by, filled, scan, runs, listed, targets, elapsed,
                   timeout_value>>

\* asyncio.sleep(e.seconds) is over: get_channel_info(entity) runs again
flood_wake(i) ==
    /\ phase = "running"
    /\ pc[i] = "sleeping"
    /\ elapsed[i] >= wake[i]
    /\ pc' = [pc EXCEPT ![i] = "fetching"]
    /\ UNCHANGED side
    /\ UNCHANGED <<detail, aside>>
    /\ UNCHANGED <<config, data, phase, raised_by, filled, scan, runs, listed, targets, semaphore, elapsed,
                   wake, timeout_value, info, results, finished, outcome, floods,
                   waited>>

\* the timer is started again when a retry starts
timer_due_restarted(i) == elapsed[i] >= wake[i] + timeout_value[i]

\* the timer wait_for started when the task entered it is due: one timer
\* covers the call of get_channel_info with its sleeps and recursive calls
timer_due(i) == elapsed[i] >= timeout_value[i]

\* what the cancellation of _collect_private_chat_info does to the task of
\* line 1223: a task that is awaited (line 1273) is cancelled with its
\* awaiter, a task that is not awaited (the coroutine is in the loop of line
\* 1230) is left as it is
cancelled_task(t, awaited) == IF t = "pending" /\ awaited THEN "cancelled" ELSE t

\* the timer of wait_for fires: asyncio.TimeoutError.  process_channel builds
\* the placeholder at once; process_private_chat awaits
\* _build_basic_private_chat_info, which awaits GetFullUserRequest
timer_fires(i, awaited) ==
    /\ phase = "running"
    /\ pc[i] \in {"fetching", "sleeping"}
    /\ timer_due(i)
    /\ IF scan = "channels"
       THEN channel_after_wait(i, _build_basic_channel_info(entity_of(targets[i]),
                                                            last_message_map[targets[i]],
                                                            StatusTimeout),
                               IF pc[i] = "sleeping" THEN "timer_sleeping"
                               ELSE "timer_fetching")
       ELSE /\ pc' = [pc EXCEPT ![i] = "placeholder"]
            /\ outcome' = [outcome EXCEPT ![i] = "timer_fetching"]
            /\ UNCHANGED <<semaphore, info, results, finished>>
    /\ full_user_info_task' = [full_user_info_task EXCEPT ![i] =
            cancelled_task(@, awaited)]
    /\ UNCHANGED is_unsubscribed
    /\ UNCHANGED <<detail, aside>>
    /\ UNCHANGED <<config, data, phase, raised_by, filled, scan, runs, listed, targets, elapsed, wake,
                   timeout_value, floods, waited>>

\* GetFullUserRequest of _build_basic_private_chat_info answers or raises (the
\* error is logged): the "timeout" placeholder is returned either way
placeholder_done(i) ==
    /\ phase = "running"
    /\ pc[i] = "placeholder"
    /\ private_after_wait(i, _build_basic_private_chat_info(entity_of(targets[i]),
                                                            last_message_map[targets[i]],
                                                            StatusTimeout),
                          outcome[i])
    /\ UNCHANGED side
    /\ UNCHANGED <<detail, aside>>
    /\ UNCHANGED <<config, data, phase, raised_by, filled, scan, runs, listed, targets, elapsed, wake,
                   timeout_value, floods, waited>>

\* the error of the leave request is not caught: it leaves the task
after_leave_raising(row, ok) ==
    IF ok THEN [row EXCEPT !.unsubscribed_status = UnsubYes] ELSE ExceptionResult

\* channel_info after _leave_channel_or_chat returned ok (lines 644-648); the
\* function catches the error of the request and returns False
after_leave(row, ok) ==
    [row EXCEPT !.unsubscribed_status = IF ok THEN UnsubYes ELSE UnsubFailed]

\* _leave_channel_or_chat returns True (ok) or False (the request raised)
leave_done(i, ok) ==
    /\ phase = "running"
    /\ pc[i] = "leaving"
    /\ pc' = [pc EXCEPT ![i] = "done"]
    /\ info' = [info EXCEPT ![i] = after_leave(@, ok)]
    /\ task_returns(i, info'[i])
    /\ is_unsubscribed' = [is_unsubscribed EXCEPT ![i] = IF ok THEN "True" ELSE "False"]
    /\ UNCHANGED full_user_info_task
    /\ UNCHANGED <<detail, aside>>
    /\ UNCHANGED <<config, data, phase, raised_by, filled, scan, runs, listed, targets, semaphore, elapsed,
                   wake, timeout_value, outcome, floods, waited>>

\* the GetFullUserRequest sent by the task of line 1223 answers or raises:
\* that task is done, whether or not anything still awaits it
GetFullUserRequest_done(i) ==
    /\ phase = "running"
    /\ full_user_info_task[i] = "pending"
    /\ full_user_info_task' = [full_user_info_task EXCEPT ![i] = "done"]
    /\ UNCHANGED is_unsubscribed
    /\ UNCHANGED <<detail, aside>>
    /\ UNCHANGED <<config, data, phase, raised_by, filled, scan, runs, listed, targets, semaphore, tasks>>

\* an exception leaves the task while it is inside "async with semaphore"
\* (one that is raised outside the try blocks of the fetch, or inside its
\* FloodWaitError handler, such as the RecursionError of the recursive retry):
\* the slot is released and gather holds the exception
task_raises(i) ==
    /\ phase = "running"
    /\ pc[i] = "fetching"
    /\ not_suspended(i)
    /\ semaphore' = semaphore + 1
    /\ pc' = [pc EXCEPT ![i] = "done"]
    /\ outcome' = [outcome EXCEPT ![i] = "raised"]
    /\ task_returns(i, ExceptionResult)
    /\ UNCHANGED side
    /\ UNCHANGED <<detail, aside>>
    /\ UNCHANGED <<config, data, phase, raised_by, filled, scan, runs, listed, targets, elapsed, wake,
                   timeout_value, info, floods, waited>>

\* one unit of time passes for every task between start_time and its
\* duration; the timer of a wait_for fires before time passes its timeout
Tick ==
    /\ phase = "running"
    /\ \A i \in Indexes : pc[i] \in {"fetching", "sleeping"} => ~timer_due(i)
    /\ \E i \in Indexes :
          \/ pc[i] \in {"fetching", "sleeping"}
          \/ pc[i] = "placeholder" /\ elapsed[i] < timeout_value[i] + MaxLatency
    /\ elapsed' = [i \in Indexes |->
                      IF pc[i] \in {"fetching", "sleeping"} THEN elapsed[i] + 1
                      ELSE IF pc[i] = "placeholder"
                      THEN (IF elapsed[i] < timeout_value[i] + MaxLatency
                            THEN elapsed[i] + 1 ELSE elapsed[i])
                      ELSE elapsed[i]]
    /\ UNCHANGED side
    /\ UNCHANGED <<detail, aside>>
    /\ UNCHANGED <<config, data, phase, raised_by, filled, scan, runs, listed, targets, semaphore, pc, wake,
                   timeout_value, info, results, finished, outcome, floods, waited>>

----------------------------------------------------------------------------
(* asyncio.gather and the loop over its results *)

\* asyncio.gather called without return_exceptions=True
return_exceptions_off == FALSE

\* the flag given to asyncio.gather
return_exceptions == TRUE

\* the results in the order the tasks completed (rows appended on completion)
gathered_as_completed == [k \in 1..Len(finished) |-> results[finished[k]]]

\* the results in the order the loop "for result in results" visits them
gathered == [k \in Indexes |-> results[k]]

RECURSIVE collect(_, _)
\* the stored list after the loop appended every dict of rs to acc
collect(acc, rs) ==
    IF rs = <<>> THEN acc
    ELSE collect(IF IsDict(Head(rs)) THEN Append(acc, Head(rs)) ELSE acc, Tail(rs))

\* every task has ended: gather returns (or raises the exception of a task
\* when return_exceptions is off) and the loop fills the stored list
gather_done ==
    /\ phase = "running"
    /\ \A i \in Indexes : pc[i] = "done"
    /\ IF ~return_exceptions /\ \E i \in Indexes : IsException(results[i])
       THEN /\ phase' = "raised"
            /\ raised_by' = "task"
            /\ UNCHANGED <<data, filled>>
       ELSE /\ phase' = "returned"
            /\ channels_data' = IF scan = "channels"
                                THEN collect(channels_data, gathered) ELSE channels_data
            /\ private_chats_data' = IF scan = "private"
                                     THEN collect(private_chats_data, gathered)
                                     ELSE private_chats_data
            /\ UNCHANGED xlsx_rows
            /\ filled' = IF collect(<<>>, gathered) # <<>> THEN filled \cup {scan}
                         ELSE filled
            /\ UNCHANGED raised_by
    /\ UNCHANGED side
    /\ UNCHANGED <<detail, aside>>
    /\ UNCHANGED <<config, scan, runs, listed, targets, semaphore, tasks>>

----------------------------------------------------------------------------
(* The rows of the XLSX sheets *)

\* dict.get(key): None when the key is absent
Get(row, key) == IF key \in DOMAIN row THEN row[key] ELSE None

\* lines 857-862: the participant count when it is a number, else 0
_participants_sort_key(channel) ==
    LET participants_value == Get(channel, "participants_count")
    IN  IF participants_value.type = "value" THEN participants_value.v ELSE 0

\* the key of line 1451: int(item.get("messages_total", 0) or 0)
messages_sort_key(item) ==
    IF "messages_total" \in DOMAIN item THEN item.messages_total ELSE 0

\* sorted() without reverse=True: the smaller keys first
rank_ascending(keys, k) ==
    1 + Cardinality({j \in DOMAIN keys :
                        keys[j] < keys[k] \/ (keys[j] = keys[k] /\ j < k)})

\* place of element k of a list with these keys after sorted(reverse=True):
\* behind the larger keys and behind the earlier elements of the same key
rank(keys, k) ==
    1 + Cardinality({j \in DOMAIN keys :
                        keys[j] > keys[k] \/ (keys[j] = keys[k] /\ j < k)})

\* sorted(list, key=..., reverse=True): a new list
sorted(list, keys) ==
    [p \in DOMAIN list |-> list[CHOOSE k \in DOMAIN list : rank(keys, k) = p]]

\* list.sort(): the stored list itself is reordered
list_after_sort_in_place(list, sorted_list) == sorted_list

\* the stored list after sorted() returned sorted_list
list_after_sorted(list, sorted_list) == list

\* lines 798-843: the cells of one channel row
channel_cells(channel) ==
    LET participants_value == Get(channel, "participants_count")
    IN  [id |-> ToString(channel.id),
         participants |-> IF participants_value.type = "value"
                          THEN ToString(participants_value.v)
                          ELSE IF participants_value = None THEN "Unknown"
                          ELSE participants_value.v,
         unsubscribed_status |-> channel.unsubscribed_status,
         processing_status |-> channel.processing_status]

\* lines 1455-1495: the cells of one private chat row
private_cells(chat) ==
    [id |-> ToString(chat.id),
     messages_total |-> chat.messages_total,
     processing_status |-> chat.processing_status]

\* _build_xlsx_rows is called on the list scan_all_channels returned
_build_xlsx_rows ==
    /\ phase = "returned"
    /\ scan = "channels"
    /\ xlsx_rows = NotDone
    /\ LET sorted_channels ==
               sorted(channels_data,
                      [k \in DOMAIN channels_data |->
                          _participants_sort_key(channels_data[k])])
       IN  /\ xlsx_rows' = [sheet |-> "channels",
                            rows |-> [k \in DOMAIN sorted_channels |->
                                         channel_cells(sorted_channels[k])]]
           /\ channels_data' = list_after_sorted(channels_data, sorted_channels)
    /\ UNCHANGED <<config, private_chats_data, scanning, detail, aside>>

\* _build_private_xlsx_rows is called on the list scan_private_chats returned
_build_private_xlsx_rows ==
    /\ phase = "returned"
    /\ scan = "private"
    /\ xlsx_rows = NotDone
    /\ LET sorted_chats ==
               sorted(private_chats_data,
                      [k \in DOMAIN private_chats_data |->
                          messages_sort_key(private_chats_data[k])])
       IN  /\ xlsx_rows' = [sheet |-> "private",
                            rows |-> [k \in DOMAIN sorted_chats |->
                                         private_cells(sorted_chats[k])]]
           /\ private_chats_data' = list_after_sorted(private_chats_data, sorted_chats)
    /\ UNCHANGED <<config, channels_data, scanning, detail, aside>>

----------------------------------------------------------------------------
Next ==
    \/ \E k \in {"channels", "private"} : scan_start(k)
    \/ get_dialogs_fail
    \/ \E listing \in InjectiveSeqs(Ids, MaxTargets) : get_dialogs_ok(listing)
    \/ \E i \in Indexes : acquire(i)
    \/ \E i \in Indexes : fetch_ok(i)
    \/ \E i \in Indexes : fetch_error(i)
    \/ \E i \in Indexes : \E w \in 1..MaxWait : fetch_flood(i, w)
    \/ \E i \in Indexes : flood_wake(i)
    \/ \E i \in Indexes : \E awaited \in BOOLEAN : timer_fires(i, awaited)
    \/ \E i \in Indexes : GetFullUserRequest_done(i)
    \/ \E i \in Indexes : placeholder_done(i)
    \/ \E i \in Indexes : \E ok \in BOOLEAN : leave_done(i, ok)
    \/ \E i \in Indexes : task_raises(i)
    \/ Tick
    \/ gather_done
    \/ _build_xlsx_rows
    \/ _build_private_xlsx_rows

Spec == Init /\ [][Next]_vars

\* what the event loop does without waiting for the server: a free slot is
\* given to the first waiter, time passes, a timer that is due fires, a sleep
\* that is over ends, gather returns once every task is done.  The answers of
\* the server (fetch_ok, fetch_error, fetch_flood, placeholder_done,
\* leave_done, GetFullUserRequest_done) are not promised
Fairness ==
    /\ \A i \in 1..MaxTargets : WF_vars(i \in Indexes /\ acquire(i))
    /\ \A i \in 1..MaxTargets :
          WF_vars(i \in Indexes /\ \E awaited \in BOOLEAN : timer_fires(i, awaited))
    /\ \A i \in 1..MaxTargets : WF_vars(i \in Indexes /\ flood_wake(i))
    /\ WF_vars(Tick)
    /\ WF_vars(gather_done)

SpecLive == Spec /\ Fairness

----------------------------------------------------------------------------
(* The timeout policy on its own: every configuration of the three durations *)
(* and the two override sets, and one private chat brought to its wait_for   *)

InitPolicy ==
    /\ InitDetail
    /\ InitAside
    /\ concurrency = 1
    /\ request_timeout \in 1..MaxDuration
    /\ channel_timeout = MaxTimeout
    /\ private_timeout \in 1..MaxDuration
    /\ private_timeout_ids \in SUBSET Ids
    /\ private_text_timeout \in 1..MaxDuration
    /\ private_text_timeout_ids \in SUBSET Ids
    /\ unsubscribe_ids = {}
    /\ channels_data = <<>>
    /\ private_chats_data = <<>>
    /\ xlsx_rows = NotDone
    /\ phase = "idle"
    /\ raised_by = "none"
    /\ filled = {}
    /\ scan = "none"
    /\ runs = 0
    /\ listed = 0
    /\ targets = <<>>
    /\ semaphore = 0
    /\ pc = <<>>
    /\ elapsed = <<>>
    /\ wake = <<>>
    /\ timeout_value = <<>>
    /\ info = <<>>
    /\ results = <<>>
    /\ finished = <<>>
    /\ outcome = <<>>
    /\ floods = <<>>
    /\ waited = <<>>
    /\ is_unsubscribed = <<>>
    /\ full_user_info_task = <<>>

NextPolicy ==
    \/ scan_start("private")
    \/ \E id \in Ids : get_dialogs_ok(<<id>>)
    \/ \E i \in Indexes : acquire(i)

SpecPolicy == InitPolicy /\ [][NextPolicy]_vars

----------------------------------------------------------------------------
(* One get_channel_info call followed request by request *)

\* the text _fetch_participants_count returns on ChatAdminRequiredError
AdminRequired == [type |-> "text", v |-> "AdminRequired"]

\* what a request can answer: a payload, ChatAdminRequiredError,
\* FloodWaitError, any other Exception
Answers == {"ok", "denied", "flood", "error"}

\* the full_chat of a GetFullChannelRequest answer
FullInfos == {[participants_count |-> Some(FullChatCount), linked_chat_id |-> l] :
                 l \in {None, Some(LinkedId)}}

\* the awaited request the call stops at next, by the conditions of lines
\* 388-465 in the order the code tests them
to_last_message(l) ==
    IF call.last_message_date # None THEN "return" ELSE "last_message"

to_linked_topics(l) ==
    IF /\ l.forum_topics = <<>>
       /\ l.linked_entity # None
       /\ l.linked_entity.megagroup
    THEN "linked_topics" ELSE to_last_message(l)

to_topics(l) ==
    IF call.entity.megagroup THEN "topics" ELSE to_linked_topics(l)

to_linked(l) ==
    IF l.full_channel_info # None /\ l.full_channel_info.linked_chat_id # None
    THEN "linked" ELSE to_topics(l)

to_iter_participants(l) ==
    IF l.participants_count = None /\ ~call.entity.broadcast
    THEN "iter_participants" ELSE to_linked(l)

\* the dict get_channel_info returns (lines 346-546): it has no
\* participants_count key
final_channel_data(l) ==
    [type |-> "dict",
     id |-> call.entity.id,
     is_broadcast |-> call.entity.broadcast,
     is_megagroup |-> call.entity.megagroup,
     processing_status |-> StatusOk,
     linked_chat_id |-> IF l.full_channel_info # None
                        THEN l.full_channel_info.linked_chat_id ELSE None,
     linked_chat_title |-> IF l.linked_entity # None THEN Some("title") ELSE None,
     forum_topics |-> l.forum_topics,
     forum_topics_count |-> Len(l.forum_topics),
     last_message_date |-> l.last_message_date,
     can_view_participants |-> IF l.full_channel_info # None THEN "Yes" ELSE ""]

\* the call goes on to the request named next with locals l, or returns
proceed(l, next) ==
    /\ locals' = l
    /\ IF next = "return"
       THEN /\ step' = "returned"
            /\ returned' = final_channel_data(l)
       ELSE /\ step' = next
            /\ UNCHANGED returned

\* the request of the current step is sent and answers a; payload is what an
\* "ok" answer carries
request(name, a, payload) ==
    issued' = Append(issued, [request |-> name, answer |-> a,
                              payload |-> IF a = "ok" THEN payload ELSE None])

\* the inner handlers let ChatAdminRequiredError through
inner_caught_without_denied == {"flood", "error"}

\* what the try blocks around the requests after get_entity catch:
\* "except ChatAdminRequiredError" and "except Exception" (FloodWaitError is
\* an Exception)
inner_caught == {"denied", "flood", "error"}

\* the handlers of lines 548-554: FloodWaitError leads to the sleep and the
\* recursive call, any other exception to "return None"
outer_handlers(a) ==
    /\ step' = IF a = "flood" THEN "sleep" ELSE "returned"
    /\ returned' = IF a = "flood" THEN returned ELSE None
    /\ UNCHANGED locals

\* a request inside an inner try block answered a: the call goes on with
\* locals l unless the exception passes the inner handlers
sub_lookup(a, l, next) ==
    IF a = "ok" \/ a \in inner_caught THEN proceed(l, next) ELSE outer_handlers(a)

\* get_channel_info(entity, last_message_date) is entered
enter(e, d) ==
    /\ call' = [entity |-> e, last_message_date |-> d]
    /\ locals' = [full_channel_info |-> None, participants_count |-> None,
                  linked_entity |-> None, forum_topics |-> <<>>,
                  last_message_date |-> d]
    /\ issued' = <<>>
    /\ attempt' = attempt + 1
    /\ step' = "get_entity"

\* line 343: get_entity.  A FloodWaitError reaches the handler of line 548,
\* any other exception the handler of line 552
get_entity(a) ==
    /\ step = "get_entity"
    /\ a = "flood" => attempt < MaxAttempts
    /\ request("get_entity", a, None)
    /\ IF a = "ok" THEN /\ step' = "full_info"
                        /\ UNCHANGED <<locals, returned>>
       ELSE outer_handlers(a)
    /\ UNCHANGED <<call, attempt>>
    /\ UNCHANGED <<config, data, scanning, aside>>

\* lines 368-380: GetFullChannelRequest inside its own try; then
\* _fetch_participants_count answers from the entity or from the full info
\* when it can (lines 156-164)
GetFullChannelRequest(a, full) ==
    /\ step = "full_info"
    /\ request("GetFullChannelRequest", a, full)
    /\ LET l1 == [locals EXCEPT !.full_channel_info = IF a = "ok" THEN full ELSE None]
           l2 == [l1 EXCEPT !.participants_count =
                      IF call.entity.participants_count # None
                      THEN call.entity.participants_count
                      ELSE l1.full_channel_info.participants_count]
       IN  IF call.entity.participants_count = None /\ l1.full_channel_info = None
           THEN sub_lookup(a, l1, "participants")
           ELSE sub_lookup(a, l2, to_iter_participants(l2))
    /\ UNCHANGED <<call, attempt>>
    /\ UNCHANGED <<config, data, scanning, aside>>

\* lines 165-177: the GetFullChannelRequest of _fetch_participants_count
_fetch_participants_count(a) ==
    /\ step = "participants"
    /\ request("GetFullChannelRequest_count", a, Some(FullChatCount))
    /\ LET l == [locals EXCEPT !.participants_count =
                     CASE a = "ok" -> Some(FullChatCount)
                       [] a = "denied" -> AdminRequired
                       [] OTHER -> None]
       IN  sub_lookup(a, l, to_iter_participants(l))
    /\ UNCHANGED <<call, attempt>>
    /\ UNCHANGED <<config, data, scanning, aside>>

\* lines 391-401: counting the participants of a group by iteration
iter_participants(a) ==
    /\ step = "iter_participants"
    /\ request("iter_participants", a, Some(FullChatCount))
    /\ LET l == [locals EXCEPT !.participants_count =
                     IF a = "ok" THEN Some(FullChatCount) ELSE None]
       IN  sub_lookup(a, l, to_linked(l))
    /\ UNCHANGED <<call, attempt>>
    /\ UNCHANGED <<config, data, scanning, aside>>

\* lines 196-205: get_entity(linked_chat_id) inside its own try
_fetch_linked_channel_info(a, mega) ==
    /\ step = "linked"
    /\ request("get_entity_linked", a, [megagroup |-> mega])
    /\ LET l == [locals EXCEPT !.linked_entity =
                     IF a = "ok" THEN [megagroup |-> mega] ELSE None]
       IN  sub_lookup(a, l, to_topics(l))
    /\ UNCHANGED <<call, attempt>>
    /\ UNCHANGED <<config, data, scanning, aside>>

\* lines 429-441 and 220-284: the topics of the entity
_fetch_forum_topics(a, topics) ==
    /\ step = "topics"
    /\ request("GetForumTopicsRequest", a, topics)
    /\ LET l == [locals EXCEPT !.forum_topics = IF a = "ok" THEN topics ELSE <<>>]
       IN  sub_lookup(a, l, to_linked_topics(l))
    /\ UNCHANGED <<call, attempt>>
    /\ UNCHANGED <<config, data, scanning, aside>>

\* lines 444-457: the topics of the linked supergroup
_fetch_forum_topics_linked(a, topics) ==
    /\ step = "linked_topics"
    /\ request("GetForumTopicsRequest_linked", a, topics)
    /\ LET l == [locals EXCEPT !.forum_topics = IF a = "ok" THEN topics ELSE <<>>]
       IN  sub_lookup(a, l, to_last_message(l))
    /\ UNCHANGED <<call, attempt>>
    /\ UNCHANGED <<config, data, scanning, aside>>

\* lines 462-465 and 296-302: get_messages(entity, limit=1)
_fetch_last_message_date(a, date) ==
    /\ step = "last_message"
    /\ request("get_messages", a, date)
    /\ LET l == [locals EXCEPT !.last_message_date = IF a = "ok" THEN date ELSE None]
       IN  sub_lookup(a, l, "return")
    /\ UNCHANGED <<call, attempt>>
    /\ UNCHANGED <<config, data, scanning, aside>>

\* lines 550-551: asyncio.sleep(e.seconds) is over and
\* get_channel_info(entity) is called, without the last_message_date
retry ==
    /\ step = "sleep"
    /\ enter(call.entity, None)
    /\ UNCHANGED returned
    /\ UNCHANGED <<config, data, scanning, aside>>

\* the scanner is constructed and no scan runs
Idle ==
    /\ concurrency = 1
    /\ request_timeout = 1
    /\ channel_timeout = MaxTimeout
    /\ private_timeout = MaxTimeout
    /\ private_timeout_ids = {}
    /\ private_text_timeout = MaxTimeout
    /\ private_text_timeout_ids = {}
    /\ unsubscribe_ids = {}
    /\ channels_data = <<>>
    /\ private_chats_data = <<>>
    /\ xlsx_rows = NotDone
    /\ phase = "idle"
    /\ raised_by = "none"
    /\ filled = {}
    /\ scan = "none"
    /\ runs = 0
    /\ listed = 0
    /\ targets = <<>>
    /\ semaphore = 0
    /\ pc = <<>>
    /\ elapsed = <<>>
    /\ wake = <<>>
    /\ timeout_value = <<>>
    /\ info = <<>>
    /\ results = <<>>
    /\ finished = <<>>
    /\ outcome = <<>>
    /\ floods = <<>>
    /\ waited = <<>>
    /\ is_unsubscribed = <<>>
    /\ full_user_info_task = <<>>

\* get_channel_info has just been entered by process_channel for a channel of
\* the account, with the last message date of its dialog (lines 610-613)
InitFetch ==
    /\ Idle
    /\ InitAside
    /\ \E id \in Ids : \E d \in {message_date(id)} :
          /\ call = [entity |-> Channel(id), last_message_date |-> d]
          /\ locals = [full_channel_info |-> None, participants_count |-> None,
                       linked_entity |-> None, forum_topics |-> <<>>,
                       last_message_date |-> d]
    /\ step = "get_entity"
    /\ issued = <<>>
    /\ attempt = 1
    /\ returned = NotDone

NextFetch ==
    \/ \E a \in Answers : get_entity(a)
    \/ \E a \in Answers : \E full \in FullInfos : GetFullChannelRequest(a, full)
    \/ \E a \in Answers : _fetch_participants_count(a)
    \/ \E a \in Answers : iter_participants(a)
    \/ \E a \in Answers : \E mega \in BOOLEAN : _fetch_linked_channel_info(a, mega)
    \/ \E a \in Answers : \E topics \in {<<>>, <<"topic">>} : _fetch_forum_topics(a, topics)
    \/ \E a \in Answers : \E topics \in {<<>>, <<"topic">>} :
          _fetch_forum_topics_linked(a, topics)
    \/ \E a \in Answers : \E date \in {None} \cup {Some(t) : t \in 1..MaxDate} :
          _fetch_last_message_date(a, date)
    \/ retry

SpecFetch == InitFetch /\ [][NextFetch]_vars

----------------------------------------------------------------------------
(* The loop over the dialogs followed entry by entry *)

\* what dialog.entity is: a Channel, a User (a person, a bot, the account
\* itself), a Chat, or an attribute whose reading raises
EntityKinds == {"Channel", "User", "Bot", "Self", "Chat"}

\* a dialog.message.date whose isoformat() raises
Malformed == [type |-> "malformed"]

\* the dialogs get_dialogs may return, each with another entity id
Dialog == [id : Ids, entity : EntityKinds \cup {"unreadable"},
           date : {None, Malformed} \cup {Some(t) : t \in 1..MaxDate}]

DialogLists ==
    {ds \in UNION {[1..n -> Dialog] : n \in 0..MaxDialogs} :
        /\ \A a, b \in DOMAIN ds : a # b => ds[a].id # ds[b].id
        /\ \A a \in DOMAIN ds : ds[a].date \in {message_date(ds[a].id), Malformed}}

\* the test of lines 579 and 1081-1084 on a readable entity
is_target(entity) ==
    IF scan = "channels" THEN entity = "Channel" ELSE entity = "User"

\* line 569, 1077: get_dialogs returns ds and the loop starts
get_dialogs_returns(ds) ==
    /\ phase = "listing"
    /\ phase' = "enumerating"
    /\ dialogs' = ds
    /\ dialog_index' = 0
    /\ UNCHANGED <<config, data, raised_by, filled, scan, runs, listed, targets, semaphore,
                   tasks, side, detail, count_loop, topics_loop, message_loop>>

\* one pass of the loop body (lines 577-585, 1081-1089): dialog.entity is
\* read, an entity of the scanned kind is appended and the date of its last
\* message is read.  The body has no try block of its own: an exception
\* reaches the except clause of the scan (lines 675-677), which raises it
next_dialog ==
    /\ phase = "enumerating"
    /\ dialog_index < Len(dialogs)
    /\ dialog_index' = dialog_index + 1
    /\ LET dialog == dialogs[dialog_index + 1]
       IN  IF dialog.entity = "unreadable"
              \/ (is_target(dialog.entity) /\ dialog.date = Malformed)
           THEN /\ phase' = "raised"
                /\ raised_by' = "dialog"
                /\ UNCHANGED targets
           ELSE /\ targets' = IF is_target(dialog.entity)
                              THEN Append(targets, dialog.id) ELSE targets
                /\ UNCHANGED <<phase, raised_by>>
    /\ UNCHANGED dialogs
    /\ UNCHANGED <<config, data, filled, scan, runs, listed, semaphore, tasks, side, detail,
                   count_loop, topics_loop, message_loop>>

\* the loop is over: the tasks of the targets are created
loop_done ==
    /\ phase = "enumerating"
    /\ dialog_index = Len(dialogs)
    /\ create_tasks(targets)
    /\ UNCHANGED <<config, data, raised_by, filled, scan, runs, listed, detail, aside>>

InitListing ==
    /\ Idle
    /\ InitDetail
    /\ InitAside

NextListing ==
    \/ \E k \in {"channels", "private"} : scan_start(k)
    \/ get_dialogs_fail
    \/ \E ds \in DialogLists : get_dialogs_returns(ds)
    \/ next_dialog
    \/ loop_done

SpecListing == InitListing /\ [][NextListing]_vars

----------------------------------------------------------------------------
(* Counting the participants of a group by iteration (lines 388-401) *)

\* the number of lines 395 and 397
Ceiling == 10000

\* the text of line 397
MoreThanCeiling == [type |-> "text", v |-> ">10000"]

\* the sizes of the groups counted: small ones and the ones around the ceiling
GroupSizes == {0, 1, 2, Ceiling - 1, Ceiling, Ceiling + 1}

\* line 397: count if count < 10000 else ">10000"
counted(c) == IF c < Ceiling THEN Some(c) ELSE MoreThanCeiling

\* the iterator yields a participant: count += 1, and the loop is left when
\* count >= 10000 (lines 393-396)
iter_participants_next ==
    /\ counting = "loop"
    /\ consumed < group_size
    /\ consumed' = consumed + 1
    /\ count' = count + 1
    /\ IF count' >= Ceiling
       THEN /\ counting' = "done"
            /\ participants_count' = counted(count')
       ELSE UNCHANGED <<counting, participants_count>>
    /\ UNCHANGED group_size
    /\ UNCHANGED <<config, data, scanning, detail, enumeration, topics_loop, message_loop>>

\* the iterator is exhausted: the loop ends and line 397 sets the result
iter_participants_end ==
    /\ counting = "loop"
    /\ consumed = group_size
    /\ counting' = "done"
    /\ participants_count' = counted(count)
    /\ UNCHANGED <<group_size, consumed, count>>
    /\ UNCHANGED <<config, data, scanning, detail, enumeration, topics_loop, message_loop>>

\* a request of the iterator raises: "except Exception" logs it and
\* participants_count stays None (lines 398-401)
iter_participants_raises ==
    /\ counting = "loop"
    /\ counting' = "done"
    /\ participants_count' = None
    /\ UNCHANGED <<group_size, consumed, count>>
    /\ UNCHANGED <<config, data, scanning, detail, enumeration, topics_loop, message_loop>>

\* line 392: count = 0 and the loop starts on a group of some size
InitCount ==
    /\ Idle
    /\ InitDetail
    /\ InitEnumeration
    /\ InitTopics
    /\ InitMessages
    /\ counting = "loop"
    /\ group_size \in GroupSizes
    /\ consumed = 0
    /\ count = 0
    /\ participants_count = NotDone

NextCount ==
    \/ iter_participants_next
    \/ iter_participants_end
    \/ iter_participants_raises

SpecCount == InitCount /\ [][NextCount]_vars

----------------------------------------------------------------------------
(* _fetch_forum_topics followed pass by pass (lines 207-284) *)

\* line 226
max_iterations == 10

\* the 100 of min(remaining, 100), line 237
PageLimit == 100

Min(a, b) == IF a <= b THEN a ELSE b

\* the topics a page may hold: a title (or none), an id and a top_message
Topic == [title : {None, Some("a"), Some("b")}, id : 0..MaxTopicId,
          top_message : 0..MaxTopicId]

\* what a GetForumTopicsRequest may answer: an exception, a result without
\* the attribute topics, or a page of any length up to the limit
Pages == UNION {[1..n -> Topic] : n \in 0..TopicsLimit}

RECURSIVE add_titles(_, _, _)
\* lines 253-257: the titles of page that are new are appended in order
add_titles(list, seen, page) ==
    IF page = <<>> THEN [topics |-> list, seen_titles |-> seen]
    ELSE LET title == Head(page).title
         IN  IF title # None /\ title.v \notin seen
             THEN add_titles(Append(list, title.v), seen \cup {title.v}, Tail(page))
             ELSE add_titles(list, seen, Tail(page))

\* the loop has no cap on its passes
loop_goes_on_uncapped(rem, it) == rem > 0

\* line 228: the test of the while loop
loop_goes_on(rem, it) == rem > 0 /\ it < max_iterations

\* the function returns the list topics (line 284)
topics_return ==
    /\ topics_pc' = "returned"
    /\ UNCHANGED <<offset_id, offset_topic, remaining>>

\* one pass of the loop (lines 229-273): the request is sent and answers a;
\* page is the attribute topics of an "ok" answer, has_topics tells whether
\* the result has that attribute
topics_pass(a, has_topics, page) ==
    /\ topics_pc = "loop"
    /\ iteration' = iteration + 1
    /\ topics_requests' = topics_requests + 1
    /\ IF a # "ok"
       THEN /\ topics_pc' = IF a \in inner_caught THEN "returned" ELSE "raised"
            /\ UNCHANGED <<forum_topics, seen_titles, offset_id, offset_topic, remaining>>
       ELSE IF ~has_topics \/ page = <<>>
       THEN /\ topics_return
            /\ UNCHANGED <<forum_topics, seen_titles>>
       ELSE LET added == add_titles(forum_topics, seen_titles, page)
                last_topic == page[Len(page)]
                new_offset_topic == last_topic.id
                new_offset_id == last_topic.top_message
            IN  /\ forum_topics' = added.topics
                /\ seen_titles' = added.seen_titles
                /\ IF Len(page) < Min(remaining, PageLimit)
                   THEN topics_return
                   ELSE IF new_offset_topic = offset_topic /\ new_offset_id = offset_id
                   THEN topics_return
                   ELSE /\ offset_topic' = new_offset_topic
                        /\ offset_id' = new_offset_id
                        /\ remaining' = TopicsLimit - Len(added.topics)
                        /\ topics_pc' = IF loop_goes_on(remaining', iteration')
                                        THEN "loop" ELSE "returned"
    /\ UNCHANGED <<config, data, scanning, detail, enumeration, count_loop, message_loop>>

\* lines 218-226: the locals are set; limit > 0, so the first pass runs
InitTopicsCall ==
    /\ Idle
    /\ InitDetail
    /\ InitEnumeration
    /\ InitIteration
    /\ InitMessages
    /\ topics_pc = "loop"
    /\ forum_topics = <<>>
    /\ seen_titles = {}
    /\ offset_id = 0
    /\ offset_topic = 0
    /\ remaining = TopicsLimit
    /\ iteration = 0
    /\ topics_requests = 0

NextTopics ==
    \/ \E a \in Answers \ {"ok"} : topics_pass(a, FALSE, <<>>)
    \/ topics_pass("ok", FALSE, <<>>)
    \/ \E page \in Pages : topics_pass("ok", TRUE, page)

SpecTopics == InitTopicsCall /\ [][NextTopics]_vars

----------------------------------------------------------------------------
(* The message loop of _collect_private_chat_info (lines 1207-1392) *)

\* datetime.now(timezone.utc) of line 1207, as a number of days
now == 400

\* lines 1208 and 1209
threshold_90 == now - 90
threshold_year == now - 365

\* the dates a message may carry: none, and days on both sides of the
\* thresholds
MessageDates == {None} \cup {Some(d) : d \in {threshold_year - 1, threshold_year,
                                                threshold_90, now}}

\* message.message by what the loop takes from it: the numbers of words and
\* of characters of "", " " and "a b"
Texts == {[words |-> 0, chars |-> 0], [words |-> 0, chars |-> 1],
          [words |-> 2, chars |-> 3]}

Message == [date : MessageDates, out : BOOLEAN, message : Texts]

\* lines 1234-1255: the counters after a message that has a date
count_dated(c, m, uts) ==
    LET c1 == [c EXCEPT !.messages_total = @ + 1,
                        !.messages_from_me = IF m.out THEN @ + 1 ELSE @,
                        !.messages_from_other = IF m.out THEN @ ELSE @ + 1]
        c2 == IF uts /\ m.message.chars > 0
              THEN [c1 EXCEPT !.words_total = @ + m.message.words,
                              !.chars_total = @ + m.message.chars,
                              !.words_from_me = IF m.out THEN @ + m.message.words ELSE @,
                              !.chars_from_me = IF m.out THEN @ + m.message.chars ELSE @,
                              !.words_from_other = IF m.out THEN @ ELSE @ + m.message.words,
                              !.chars_from_other = IF m.out THEN @ ELSE @ + m.message.chars]
              ELSE c1
    IN  [c2 EXCEPT !.messages_year = IF m.date.v >= threshold_year THEN @ + 1 ELSE @,
                   !.messages_90 = IF m.date.v >= threshold_90 THEN @ + 1 ELSE @]

\* the message is counted in the total before its date is looked at
count_message_before_date_test(c, m, uts) ==
    IF m.date = None THEN [c EXCEPT !.messages_total = @ + 1]
    ELSE count_dated(c, m, uts)

\* lines 1231-1255: one pass of the loop; a message without a date is
\* skipped by "continue"
count_message(c, m, uts) ==
    IF m.date = None THEN c ELSE count_dated(c, m, uts)

\* the counting fields of the dict of lines 1360-1392
private_chat_counts(c, uts) ==
    [type |-> "dict", processing_status |-> StatusOk,
     messages_90 |-> c.messages_90, messages_year |-> c.messages_year,
     messages_total |-> c.messages_total,
     messages_from_me |-> c.messages_from_me,
     messages_from_other |-> c.messages_from_other,
     words_from_me |-> IF uts THEN Some(c.words_from_me) ELSE None,
     words_from_other |-> IF uts THEN Some(c.words_from_other) ELSE None,
     words_total |-> IF uts THEN Some(c.words_total) ELSE None,
     chars_from_me |-> IF uts THEN Some(c.chars_from_me) ELSE None,
     chars_from_other |-> IF uts THEN Some(c.chars_from_other) ELSE None,
     chars_total |-> IF uts THEN Some(c.chars_total) ELSE None]

\* iter_messages yields the message m
iter_messages_next(m) ==
    /\ messages_pc = "loop"
    /\ Len(yielded) < MaxMessages
    /\ yielded' = Append(yielded, m)
    /\ counters' = count_message(counters, m, use_text_stats)
    /\ UNCHANGED <<messages_pc, use_text_stats, collected>>
    /\ UNCHANGED <<config, data, scanning, detail, enumeration, count_loop, topics_loop>>

\* iter_messages is exhausted: the rest of the function fills the dict from
\* the counters and returns it
iter_messages_end ==
    /\ messages_pc = "loop"
    /\ messages_pc' = "returned"
    /\ collected' = private_chat_counts(counters, use_text_stats)
    /\ UNCHANGED <<use_text_stats, yielded, counters>>
    /\ UNCHANGED <<config, data, scanning, detail, enumeration, count_loop, topics_loop>>

\* a request of iter_messages raises: lines 1393-1395 log it and return None
iter_messages_raises ==
    /\ messages_pc = "loop"
    /\ messages_pc' = "returned"
    /\ collected' = None
    /\ UNCHANGED <<use_text_stats, yielded, counters>>
    /\ UNCHANGED <<config, data, scanning, detail, enumeration, count_loop, topics_loop>>

\* _collect_private_chat_info has set its counters, with or without text
\* statistics
InitMessagesCall ==
    /\ Idle
    /\ InitDetail
    /\ InitEnumeration
    /\ InitIteration
    /\ InitTopics
    /\ messages_pc = "loop"
    /\ use_text_stats \in BOOLEAN
    /\ yielded = <<>>
    /\ counters = zero_counters
    /\ collected = NotDone

NextMessages ==
    \/ \E m \in Message : iter_messages_next(m)
    \/ iter_messages_end
    \/ iter_messages_raises

SpecMessages == InitMessagesCall /\ [][NextMessages]_vars

----------------------------------------------------------------------------
(* Properties *)

\* the stored list of the running scan
stored == IF scan = "channels" THEN channels_data ELSE private_chats_data

\* position of the target with entity id in the listing
PositionOf(id) == CHOOSE i \in Indexes : targets[i] = id

TimerOutcomes == {"timer_fetching", "timer_sleeping"}

\* C1: after scan_all_channels / scan_private_chats returns, the stored list
\* holds exactly one row per enumerated target (no duplicate, no omission),
\* for any mix of success, timeout and error outcomes of the fetches (stated
\* here for the scans in which no exception left a task).
C1_OneRowPerTarget ==
    (phase = "returned" /\ \A i \in Indexes : outcome[i] # "raised") =>
        /\ Len(stored) = Len(targets)
        /\ \A i \in Indexes :
              Cardinality({k \in DOMAIN stored : stored[k].id = targets[i]}) = 1

\* C2: at every moment of a scan the number of tasks that hold a slot is at
\* most the configured cap, and the cap is at least 1.
C2_AtMostCRunning ==
    /\ concurrency >= 1
    /\ Cardinality(Running) <= concurrency

\* the cap is reached while a task sleeps on a rate limit and another waits
C2_Witness ==
    /\ Cardinality(Running) = concurrency
    /\ \E i, j \in Indexes : pc[i] = "sleeping" /\ pc[j] = "pending"

C4_ListingFailureLeavesNoReport ==
    (phase = "raised" /\ raised_by = "get_dialogs") =>
        /\ stored = <<>>
        /\ targets = <<>>
        /\ pc = <<>>
        /\ results = <<>>

\* get_dialogs failed in a scan whose previous run had filled the same list
C4_Witness ==
    /\ phase = "raised"
    /\ raised_by = "get_dialogs"
    /\ scan \in filled

\* C5: the rows of the stored list are the dict results of the tasks in the
\* order of the listing, whatever the order in which the tasks completed.
C5_EnumerationOrder ==
    phase = "returned" =>
        /\ {stored[k] : k \in DOMAIN stored} = {results[i] : i \in {j \in Indexes : IsDict(results[j])}}
        /\ Len(stored) = Cardinality({j \in Indexes : IsDict(results[j])})
        /\ \A k, l \in DOMAIN stored :
              k < l => PositionOf(stored[k].id) < PositionOf(stored[l].id)

\* two rows were stored in listing order although the second target finished first
C5_Witness ==
    /\ phase = "returned"
    /\ Len(stored) = 2
    /\ finished = <<2, 1>>
    /\ stored[1].id = targets[1]

\* C6: with a set H of targets whose fetch never answers and every other fetch
\* succeeding, the timeout row of a target of H exists as soon as its timeout
\* has elapsed, and the scan returns with status timeout for H and ok for the others.
C6_HangingTargetsTimeOut ==
    /\ \A i \in Indexes :
          (outcome[i] = "timer_fetching" /\ floods[i] = 0) =>
              /\ IsDict(info[i])
              /\ info[i].processing_status = StatusTimeout
              /\ elapsed[i] = timeout_value[i]
    /\ (phase = "returned"
        /\ \A i \in Indexes : floods[i] = 0 /\ outcome[i] \in {"payload", "timer_fetching"}) =>
            /\ Len(stored) = Len(targets)
            /\ \A i \in Indexes :
                  /\ stored[i].id = targets[i]
                  /\ stored[i].processing_status =
                        IF outcome[i] = "payload" THEN StatusOk ELSE StatusTimeout

\* C7: when the timer of a target has fired its slot is free: no request is
\* awaited between the timeout and the release, and the scan does not raise.
C7_TimeoutFreesSlotAtOnce ==
    /\ \A i \in Indexes : outcome[i] \in TimerOutcomes => i \notin Running
    /\ phase = "raised" => raised_by # "task"

\* C8: for every kind of target, a fetch that signals one FloodWaitError and
\* meets no other failure ends with a row of status ok, produced no earlier
\* than the wait after the start of the fetch.
C8_OneFloodThenOk ==
    \A i \in Indexes :
        (pc[i] = "done" /\ floods[i] = 1
         /\ outcome[i] \notin ({"error", "raised"} \cup TimerOutcomes)) =>
            /\ IsDict(results[i])
            /\ results[i].processing_status = StatusOk
            /\ elapsed[i] >= waited[i]

\* C9: a target the server kept throttling until its budget ended gets a
\* status that differs from the status of a target that plainly timed out.
C9_ThrottledDistinctFromTimeout ==
    \A i, j \in Indexes :
        (outcome[i] = "timer_sleeping" /\ outcome[j] = "timer_fetching" /\ floods[j] = 0
         /\ IsDict(info[i]) /\ IsDict(info[j])) =>
            info[i].processing_status # info[j].processing_status

\* C10: a private chat in both override sets gets the larger of the two
\* durations, a chat in one set gets the duration of that set, any other chat
\* gets the default request timeout.
C10_LongestOverrideWins ==
    \A i \in Indexes :
        (scan = "private" /\ pc[i] = "fetching") =>
            timeout_value[i] =
                IF targets[i] \in private_text_timeout_ids \cap private_timeout_ids
                THEN Max(private_text_timeout, private_timeout)
                ELSE IF targets[i] \in private_text_timeout_ids THEN private_text_timeout
                ELSE IF targets[i] \in private_timeout_ids THEN private_timeout
                ELSE request_timeout

\* names of the requests the running get_channel_info call has sent
Sent == {issued[k].request : k \in DOMAIN issued}

\* the running call sent the request name and got the answer a
Answered(name, a) ==
    \E k \in DOMAIN issued : issued[k].request = name /\ issued[k].answer = a

\* C11: a FloodWaitError raised by any request of a fetch attempt ends that
\* attempt: it is the last request the attempt sends, get_channel_info then
\* sleeps and starts again from its first request.
C11_FloodAbortsAttempt ==
    \A k \in DOMAIN issued :
        issued[k].answer = "flood" => (k = Len(issued) /\ step = "sleep")

\* C12: when requests after get_entity raise ChatAdminRequiredError (and no
\* other error occurs) get_channel_info still returns a row of status ok: the
\* topic listing and the last-message lookup are still sent, the fields of
\* the answered requests carry their payload and only the fields of the
\* denied requests are empty.
C12_PermissionDeniedDegrades ==
    (/\ step = "returned"
     /\ \A k \in DOMAIN issued : issued[k].answer \in {"ok", "denied"}
     /\ \E k \in 2..Len(issued) : issued[k].answer = "denied") =>
        /\ IsDict(returned)
        /\ returned.processing_status = StatusOk
        /\ call.entity.megagroup => "GetForumTopicsRequest" \in Sent
        /\ call.last_message_date = None => "get_messages" \in Sent
        /\ "participants_count" \notin DOMAIN returned
        /\ \A k \in DOMAIN issued :
              LET r == issued[k] IN
              /\ (r.request = "get_messages" /\ r.answer = "ok") =>
                    returned.last_message_date = r.payload
              /\ (r.request = "GetForumTopicsRequest" /\ r.answer = "ok"
                  /\ r.payload # <<>>) => returned.forum_topics = r.payload
              /\ (r.request = "GetFullChannelRequest" /\ r.answer = "ok") =>
                    /\ returned.linked_chat_id = r.payload.linked_chat_id
                    /\ returned.can_view_participants = "Yes"
              /\ (r.request = "GetFullChannelRequest" /\ r.answer = "denied") =>
                    /\ returned.linked_chat_id = None
                    /\ returned.can_view_participants = ""
              /\ (r.request = "GetForumTopicsRequest" /\ r.answer = "denied"
                  /\ "GetForumTopicsRequest_linked" \notin Sent) =>
                    returned.forum_topics = <<>>

\* a row was returned although the full info, the participant count and the
\* topic listing were all denied; the last-message lookup gave its date
C12_Witness ==
    /\ step = "returned"
    /\ IsDict(returned)
    /\ Answered("GetFullChannelRequest", "denied")
    /\ Answered("GetFullChannelRequest_count", "denied")
    /\ Answered("GetForumTopicsRequest", "denied")
    /\ Answered("get_messages", "ok")
    /\ returned.last_message_date # None

\* C13: _leave_channel_or_chat is invoked for a target only when the fetch of
\* that target returned a row of status ok and its id is in unsubscribe_ids;
\* no target with a timeout or error row is ever left.
C13_LeaveOnlyAfterOk ==
    \A i \in Indexes :
        /\ pc[i] = "leaving" =>
              /\ info[i].processing_status = StatusOk
              /\ targets[i] \in unsubscribe_ids
        /\ (scan = "channels" /\ IsDict(results[i])
            /\ results[i].unsubscribed_status \in {UnsubYes, UnsubFailed}) =>
              /\ results[i].processing_status = StatusOk
              /\ targets[i] \in unsubscribe_ids

\* C14: a failed leave request neither makes the scan raise nor removes the
\* row of its target: every row of a channel scan records what became of the
\* leave request (done, failed, not requested) and the rows of all the other
\* targets are stored too.
C14_LeaveFailureKeepsRow ==
    /\ \A i \in Indexes :
          /\ is_unsubscribed[i] # "not_called" => IsDict(results[i])
          /\ (scan = "channels" /\ IsDict(results[i])) =>
                results[i].unsubscribed_status =
                    CASE is_unsubscribed[i] = "True" -> UnsubYes
                      [] is_unsubscribed[i] = "False" -> UnsubFailed
                      [] OTHER -> UnsubNo
    /\ (\E i \in Indexes : is_unsubscribed[i] = "False") =>
          /\ phase # "raised"
          /\ phase = "returned" =>
                \A j \in Indexes :
                    outcome[j] # "raised" =>
                        \E k \in DOMAIN stored : stored[k] = results[j]

\* a scan returned two rows: the leave request of one target failed, the
\* other target was fetched
C14_Witness ==
    /\ phase = "returned"
    /\ Len(stored) = 2
    /\ \E i, j \in Indexes :
          /\ is_unsubscribed[i] = "False"
          /\ stored[i].unsubscribed_status = UnsubFailed
          /\ stored[j].processing_status = StatusOk
          /\ stored[j].unsubscribed_status = UnsubNo

\* C15: the placeholder row of a target that timed out or failed carries the
\* id, the kind flags and the last message date the listing gave for that
\* same target, and a status that is not ok.
C15_PlaceholderCarriesListing ==
    \A i \in Indexes :
        (IsDict(info[i]) /\ outcome[i] \in TimerOutcomes \cup {"error"}) =>
            /\ info[i].id = targets[i]
            /\ info[i].last_message_date = message_date(targets[i])
            /\ info[i].processing_status \in {StatusTimeout, StatusError}
            /\ scan = "channels" =>
                  /\ info[i].is_broadcast = Channel(targets[i]).broadcast
                  /\ info[i].is_megagroup = Channel(targets[i]).megagroup
            /\ scan = "private" =>
                  info[i].is_verified = (IF User(targets[i]).verified THEN "Yes" ELSE "No")

\* a channel scan stored the error placeholder of a supergroup whose dialog
\* has no message and the timeout placeholder of a broadcast channel whose
\* dialog has one
C15_Witness ==
    /\ phase = "returned"
    /\ scan = "channels"
    /\ Len(stored) = 2
    /\ stored[1].processing_status = StatusError
    /\ stored[1].last_message_date = None
    /\ stored[1].is_megagroup
    /\ stored[2].processing_status = StatusTimeout
    /\ stored[2].last_message_date # None
    /\ stored[2].is_broadcast

\* C16: the rows built for a sheet are as many as the rows of the stored
\* list, each stored id appears in exactly one of them, and the stored list is
\* still the list the scan stored, in the same order.
C16_PresentationKeepsRows ==
    xlsx_rows # NotDone =>
        /\ Len(xlsx_rows.rows) = Len(stored)
        /\ \A k \in DOMAIN stored :
              Cardinality({j \in DOMAIN xlsx_rows.rows :
                              xlsx_rows.rows[j].id = ToString(stored[k].id)}) = 1
        /\ stored = collect(<<>>, gathered)

\* the sheet of two private chats was built in another order than the stored
\* list has
C16_Witness ==
    /\ xlsx_rows # NotDone
    /\ Len(stored) = 2
    /\ xlsx_rows.rows[1].id = ToString(stored[2].id)
    /\ xlsx_rows.rows[2].id = ToString(stored[1].id)

\* C17: every scan whose tasks were created returns, whatever requests the
\* server leaves unanswered, as long as the timers fire.
C17_ScanTerminates == (phase = "running") ~> (phase \in {"returned", "raised"})

\* C18: once the timeout row of a target has been returned nothing of the
\* abandoned fetch goes on: no request of it is still in flight and the fetch
\* neither sleeps nor runs again.
C18_NothingLeftAfterTimeout ==
    \A i \in Indexes :
        (pc[i] = "done" /\ IsDict(results[i])
         /\ results[i].processing_status = StatusTimeout) =>
            full_user_info_task[i] # "pending"

\* C19: the attempts of a target share one timer: for a
\* channel, and for any target that got FloodWaitErrors, the time since the
\* slot was acquired never exceeds the timeout of the target, and a timeout
\* after retries comes exactly when that one timeout has elapsed.
C19_RetriesShareBudget ==
    \A i \in Indexes :
        (scan = "channels" \/ floods[i] > 0) =>
            /\ elapsed[i] <= timeout_value[i] \/ pc[i] = "pending"
            /\ outcome[i] \in TimerOutcomes => elapsed[i] = timeout_value[i]

\* a channel timed out in its second sleep, when its one timeout had elapsed
C19_Witness ==
    \E i \in Indexes :
        /\ floods[i] = 2
        /\ outcome[i] = "timer_sleeping"
        /\ elapsed[i] = timeout_value[i]
        /\ pc[i] = "done"

\* C20: a target takes a slot once, from the queue, and keeps it through its
\* attempts and sleeps until its outcome is decided: a task never goes back
\* to the queue, never loses the slot while it has no outcome, and never
\* holds a slot again once it has given it up.
C20_SlotHeldOnce ==
    [][(phase = "running" /\ phase' = "running") =>
          \A i \in Indexes :
              /\ pc[i] = "pending" => pc'[i] \in {"pending", "fetching"}
              /\ pc[i] # "pending" => pc'[i] # "pending"
              /\ (i \in Running /\ outcome'[i] = "none") => i \in Running'
              /\ (i \notin Running /\ pc[i] # "pending") => i \notin Running'
      ]_vars

\* with one slot, the first target was rate limited, slept and was fetched
\* while the second target was still waiting for the slot
C20_Witness ==
    /\ concurrency = 1
    /\ Len(targets) = 2
    /\ floods[1] = 1
    /\ outcome[1] = "payload"
    /\ pc[2] = "pending"

\* C21: while a channel sleeps on its FloodWaitError every other task that
\* holds a slot and is fetching goes on: its fetch can answer (with a payload
\* or an error) at that moment, without waiting for the end of the sleep.
C21_BackoffSuspendsOnlyItsTarget ==
    \A i, j \in Indexes :
        (pc[i] = "sleeping" /\ pc[j] = "fetching") =>
            /\ ENABLED fetch_ok(j)
            /\ ENABLED fetch_error(j)

\* the second target got its payload after the first was rate limited and
\* before the sleep of the first was over
C21_Witness ==
    /\ Len(targets) = 2
    /\ pc[1] = "sleeping"
    /\ floods[1] = 1
    /\ elapsed[1] < wake[1]
    /\ pc[2] = "done"
    /\ outcome[2] = "payload"
    /\ elapsed[2] > wake[1] - waited[1]

\* C22: when the dialog of a channel carries a last message date, a row of
\* status ok for that channel has that date as its last_message_date and the
\* call that returned it sent no get_messages request, also when the row was
\* returned by a call that followed a FloodWaitError.
C22_ListingDateUsedAsIs ==
    (step = "returned" /\ IsDict(returned) /\ message_date(call.entity.id) # None) =>
        /\ "get_messages" \notin Sent
        /\ returned.last_message_date = message_date(call.entity.id)

\* the dialog can be processed: its entity and, for an entity of the scanned
\* kind, the date of its last message can be read
Processable(dialog) ==
    /\ dialog.entity # "unreadable"
    /\ is_target(dialog.entity) => dialog.date # Malformed

\* the dialog is one the scan has to fetch
Wanted(dialog) == Processable(dialog) /\ is_target(dialog.entity)

\* C23: the scan raises only when get_dialogs itself failed; a dialog whose
\* entity or last message date cannot be read is skipped, and the targets of
\* the scan are the other dialogs of the scanned kind, in their order.
C23_BadDialogSkipped ==
    /\ phase = "raised" => raised_by = "get_dialogs"
    /\ phase = "running" =>
          targets = [k \in 1..Len(SelectSeq(dialogs, Wanted)) |->
                        SelectSeq(dialogs, Wanted)[k].id]

\* the numeric size of a stored row: the participant count of a channel, the
\* total of messages of a private chat; zero when it is missing or no number
SizeOf(item) ==
    IF xlsx_rows.sheet = "channels"
    THEN (IF "participants_count" \in DOMAIN item /\ item.participants_count.type = "value"
          THEN item.participants_count.v ELSE 0)
    ELSE (IF "messages_total" \in DOMAIN item THEN item.messages_total ELSE 0)

\* the stored row a row of the sheet was built from
ItemOf(row) == stored[CHOOSE k \in DOMAIN stored : ToString(stored[k].id) = row.id]

\* C24: the rows of a sheet are in non-increasing order of the size of the
\* stored rows they were built from.
C24_RowsBySizeDescending ==
    xlsx_rows # NotDone =>
        \A j, k \in DOMAIN xlsx_rows.rows :
            j < k => SizeOf(ItemOf(xlsx_rows.rows[j])) >= SizeOf(ItemOf(xlsx_rows.rows[k]))

\* the sheet of two private chats shows the chat with more messages first
\* although the scan stored it second
C24_Witness ==
    /\ xlsx_rows # NotDone
    /\ xlsx_rows.sheet = "private"
    /\ Len(stored) = 2
    /\ stored[1].messages_total < stored[2].messages_total
    /\ xlsx_rows.rows[1].messages_total = stored[2].messages_total
    /\ xlsx_rows.rows[2].messages_total = stored[1].messages_total

\* C25: the loop takes at most 10000 participants from the iterator; when no
\* request raised, the count of a group of at most 10000 participants is its
\* number of participants, and the result is the text ">10000" exactly for
\* the groups of more than 10000 participants.
C25_CountUpToCeiling ==
    /\ consumed <= Ceiling
    /\ (counting = "done" /\ participants_count # None) =>
          /\ group_size <= Ceiling => participants_count = Some(group_size)
          /\ group_size > Ceiling => participants_count = MoreThanCeiling

\* C26: _fetch_forum_topics sends at most 10 GetForumTopicsRequest requests
\* and has returned once the tenth is answered, whatever the answers are; it
\* never raises, and no title is twice in the list it builds.
C26_TopicsBounded ==
    /\ topics_requests <= max_iterations
    /\ topics_requests = max_iterations => topics_pc = "returned"
    /\ topics_pc # "raised"
    /\ \A j, k \in DOMAIN forum_topics : j # k => forum_topics[j] # forum_topics[k]

\* the call returned after ten requests that were all answered with full
\* pages of titles it had seen already
C26_Witness ==
    /\ topics_pc = "returned"
    /\ topics_requests = max_iterations
    /\ Len(forum_topics) = 1
    /\ remaining = 1

\* C27: every row a task returned and every stored row has one of the three
\* processing statuses, and the status is ok exactly for the targets whose
\* wait_for returned the payload of the fetch, which it does no later than
\* the timeout of the target; such a target always gets a row.
C27_StatusOkIffPayload ==
    /\ \A i \in Indexes :
          /\ IsDict(results[i]) =>
                /\ results[i].processing_status \in {StatusOk, StatusTimeout, StatusError}
                /\ results[i].processing_status = StatusOk <=> outcome[i] = "payload"
          /\ (outcome[i] = "payload" /\ pc[i] = "done") =>
                /\ IsDict(results[i])
                /\ elapsed[i] <= timeout_value[i]
    /\ phase = "returned" =>
          \A k \in DOMAIN stored :
              /\ stored[k].processing_status \in {StatusOk, StatusTimeout, StatusError}
              /\ stored[k].processing_status = StatusOk <=>
                    outcome[PositionOf(stored[k].id)] = "payload"

\* a channel scan stored a row of status ok for a target that was rate
\* limited once and a row of status timeout for a target that never answered
C27_Witness ==
    /\ phase = "returned"
    /\ scan = "channels"
    /\ Len(stored) = 2
    /\ floods = <<1, 0>>
    /\ stored[1].processing_status = StatusOk
    /\ stored[2].processing_status = StatusTimeout
    /\ outcome[2] = "timer_fetching"

\* C28: a task that awaits its leave request holds no slot and is outside its
\* wait_for: the semaphore counts only the tasks between acquire and the end
\* of their wait_for, the timer of a leaving task cannot fire, and leave
\* requests are in flight beside a full set of running tasks.
C28_LeaveOutsideSlotAndTimer ==
    phase = "running" =>
        /\ semaphore = concurrency - Cardinality(Running)
        /\ \A i \in Indexes :
              pc[i] = "leaving" =>
                  /\ i \notin Running
                  /\ outcome[i] # "none"
                  /\ \A awaited \in BOOLEAN : ~ENABLED timer_fires(i, awaited)
                  /\ (\E j \in Indexes : pc[j] = "pending") =>
                        (semaphore > 0 => \E j \in Indexes : ENABLED acquire(j))

\* with one slot, the leave request of the first target is in flight while
\* the second target holds the slot and fetches
C28_Witness ==
    /\ concurrency = 1
    /\ Cardinality(Running) = concurrency
    /\ \E i, j \in Indexes : pc[i] = "leaving" /\ pc[j] = "fetching"

\* C29: no row of a channel scan has a number as participants_count: a row
\* of status ok has no such key, a placeholder has None; the sort key of
\* every channel row is 0 and the channel sheet lists the rows in the order
\* of the stored list, with no participant number in any of them.
C29_NoParticipantCountInChannelRows ==
    scan = "channels" =>
        /\ \A i \in Indexes :
              IsDict(results[i]) =>
                  /\ results[i].processing_status = StatusOk =>
                        "participants_count" \notin DOMAIN results[i]
                  /\ results[i].processing_status # StatusOk =>
                        results[i].participants_count = None
                  /\ _participants_sort_key(results[i]) = 0
        /\ xlsx_rows # NotDone =>
              /\ Len(xlsx_rows.rows) = Len(channels_data)
              /\ \A k \in DOMAIN channels_data :
                    /\ xlsx_rows.rows[k].id = ToString(channels_data[k].id)
                    /\ xlsx_rows.rows[k].participants = "Unknown"

\* the sheet of two fetched channels was built in the stored order although
\* the entity of the second carries a participant count and the first none
C29_Witness ==
    /\ xlsx_rows # NotDone
    /\ xlsx_rows.sheet = "channels"
    /\ Len(channels_data) = 2
    /\ channels_data[1].processing_status = StatusOk
    /\ channels_data[2].processing_status = StatusOk
    /\ Channel(channels_data[1].id).participants_count = None
    /\ Channel(channels_data[2].id).participants_count # None
    /\ xlsx_rows.rows[1].id = ToString(channels_data[1].id)

\* the message has a date
Dated(m) == m.date # None

\* C30: in the dict _collect_private_chat_info returns, messages_total is the
\* number of yielded messages that have a date and is the sum of
\* messages_from_me and messages_from_other; messages_90 <= messages_year <=
\* messages_total; with text statistics the words and the characters of the
\* two sides add up to their totals, without them the six text fields are
\* None.
C30_MessageCountsAddUp ==
    (messages_pc = "returned" /\ IsDict(collected)) =>
        /\ collected.messages_total = Len(SelectSeq(yielded, Dated))
        /\ collected.messages_from_me + collected.messages_from_other
              = collected.messages_total
        /\ collected.messages_90 <= collected.messages_year
        /\ collected.messages_year <= collected.messages_total
        /\ IF use_text_stats
           THEN /\ collected.words_from_me.v + collected.words_from_other.v
                      = collected.words_total.v
                /\ collected.chars_from_me.v + collected.chars_from_other.v
                      = collected.chars_total.v
           ELSE \A f \in {"words_from_me", "words_from_other", "words_total",
                           "chars_from_me", "chars_from_other", "chars_total"} :
                    collected[f] = None

\* with text statistics, a chat gave a message without a date and an older
\* message of two words sent by the other side: one message is counted, in
\* the year but not in the 90 days
C30_Witness ==
    /\ messages_pc = "returned"
    /\ IsDict(collected)
    /\ use_text_stats
    /\ Len(yielded) = 2
    /\ yielded[1].date = None
    /\ collected.messages_total = 1
    /\ collected.messages_from_other = 1
    /\ collected.messages_year = 1
    /\ collected.messages_90 = 0
    /\ collected.words_total = Some(2)

====
